---- MODULE Spec2Model ----
(***************************************************************************)
(* Model of students/franjaku/lesson05/database.py: import_data reads      *)
(* three CSV files (products, customers, rentals), maps every row to a     *)
(* fixed-shape record and issues one insert_many call per kind against a   *)
(* MongoDB database inside a `with MongoDBConnection()` block.             *)
(*                                                                         *)
(* Kinds are numbered in processing order: 1 product, 2 customer,          *)
(* 3 rental.  A file on disk is a header (sequence of column names) and a  *)
(* sequence of rows (sequences of cells); the content of a file is drawn   *)
(* when import_data opens it.                                              *)
(***************************************************************************)
EXTENDS Integers, Sequences, FiniteSets, TLC

\* Largest number of data rows of one CSV file.
MaxRows == 2

Kinds == 1..3

Range(s) == {s[i] : i \in DOMAIN s}

IndexOf(s, x) == CHOOSE i \in DOMAIN s : s[i] = x

(***************************************************************************)
(* The input files.                                                        *)
(***************************************************************************)

\* Columns that import_data looks up in a row of each kind.
ProductFields == <<"product_id", "description", "product_type", "quantity_available">>

CustomerFields == <<"customer_id", "name", "address", "phone_number", "email">>

RentalFields == <<"rental_id", "customer_id", "product_id">>

Fields(k) == CASE k = 1 -> ProductFields [] k = 2 -> CustomerFields [] k = 3 -> RentalFields

FieldSet(k) == Range(Fields(k))

\* A column import_data does not know.
ExtraColumn == "notes"

\* Sample rows, by kind and row variant.
SampleRows ==
  << << [product_id |-> "P1", description |-> "Desk", product_type |-> "Furniture",
         quantity_available |-> "3"],
        [product_id |-> "P2", description |-> "Fan", product_type |-> "Electric",
         quantity_available |-> "0"] >>,
     << [customer_id |-> "C1", name |-> "Jo", address |-> "1 Main St",
         phone_number |-> "555-0100", email |-> "jo@example.com"],
        [customer_id |-> "C2", name |-> "Al", address |-> "2 Oak Ave",
         phone_number |-> "555-0101", email |-> "al@example.com"] >>,
     << [rental_id |-> "R1", customer_id |-> "C1", product_id |-> "P1"],
        [rental_id |-> "R2", customer_id |-> "C2", product_id |-> "P2"] >> >>

Variants == {1, 2}

Cell(k, v, c) == IF c = ExtraColumn THEN "x" ELSE SampleRows[k][v][c]

\* Headers a file of kind k may have: the expected one, one that lacks the
\* third expected column, one with an additional column.
Headers(k) ==
  { Fields(k),
    SelectSeq(Fields(k), LAMBDA c : c # Fields(k)[3]),
    Append(Fields(k), ExtraColumn) }

RowLists == UNION { [1..n -> Variants] : n \in 0..MaxRows }

MissingFile == [opened |-> TRUE, exists |-> FALSE, header |-> <<>>, rows |-> <<>>]

Unopened == [opened |-> FALSE, exists |-> FALSE, header |-> <<>>, rows |-> <<>>]

FileChoices(k) ==
  {MissingFile} \cup
  { [opened |-> TRUE, exists |-> TRUE, header |-> h,
     rows |-> [i \in DOMAIN vs |-> [j \in DOMAIN h |-> Cell(k, vs[i], h[j])]]] :
       h \in Headers(k), vs \in RowLists }

(***************************************************************************)
(* csv.DictReader and the row mapping.                                     *)
(***************************************************************************)

\* csv.DictReader: every data row becomes a mapping column name -> cell.
DictReader(f) ==
  [i \in DOMAIN f.rows |-> [c \in Range(f.header) |-> f.rows[i][IndexOf(f.header, c)]]]

\* Outcome of row[c] when the row has no key c.
KeyError == "<KeyError>"

GetNoRaise(row, c) == IF c \in DOMAIN row THEN row[c] ELSE "None"

\* row[c]
Lookup(row, c) == IF c \in DOMAIN row THEN row[c] ELSE KeyError

ProductRecordSwapped(row) ==
  [product_id |-> Lookup(row, "product_id"),
   description |-> Lookup(row, "product_type"),
   product_type |-> Lookup(row, "description"),
   quantity_available |-> Lookup(row, "quantity_available")]

ProductRecord(row) ==
  [product_id |-> Lookup(row, "product_id"),
   description |-> Lookup(row, "description"),
   product_type |-> Lookup(row, "product_type"),
   quantity_available |-> Lookup(row, "quantity_available")]

CustomerRecord(row) ==
  [customer_id |-> Lookup(row, "customer_id"),
   name |-> Lookup(row, "name"),
   address |-> Lookup(row, "address"),
   phone_number |-> Lookup(row, "phone_number"),
   email |-> Lookup(row, "email")]

RentalRecord(row) ==
  [rental_id |-> Lookup(row, "rental_id"),
   customer_id |-> Lookup(row, "customer_id"),
   product_id |-> Lookup(row, "product_id")]

MapRow(k, row) ==
  CASE k = 1 -> ProductRecord(row)
    [] k = 2 -> CustomerRecord(row)
    [] k = 3 -> RentalRecord(row)

\* Building the record raised KeyError.
RaisesKeyError(rec) == \E c \in DOMAIN rec : rec[c] = KeyError

(***************************************************************************)
(* The store client.                                                       *)
(***************************************************************************)

\* Failures of insert_many other than TypeError.
StoreErrors == {"BulkWriteError", "ServerSelectionTimeoutError"}

\* Results of Collection.insert_many(documents): the client raises TypeError
\* for an empty list; otherwise the store accepts the documents or fails.
InsertOutcomes(documents) ==
  IF documents = <<>> THEN {"TypeError"} ELSE {"ok"} \cup StoreErrors

\* Documents an unsuccessful insert_many may have left in the collection.
PartialInserts(documents, res) ==
  IF res = "BulkWriteError"
    THEN { SubSeq(documents, 1, n) : n \in 0..(Len(documents) - 1) }
    ELSE { <<>> }

NoExceptClause(res) == FALSE

\* except TypeError
Caught(res) == res = "TypeError"

OnlyFirstDocument(d) == IF d = <<>> THEN d ELSE <<d[1]>>

\* The argument of insert_many.
InsertDocuments(d) == d

LenPlusOne(d) == Len(d) + 1

\* data.__len__()
CountEntry(d) == Len(d)

MongoEnter == "open"

MongoExitLeak(conn) == conn

\* MongoDBConnection.__exit__
MongoExit(conn) == "closed"

\* Return value of a function whose body is `pass`.
NoneValue == [type |-> "NoneType"]

NotCalled == [type |-> "not called"]

(***************************************************************************)
(* State.                                                                  *)
(***************************************************************************)
VARIABLES
  pc,           \* position of import_data
  kind,         \* kind being processed
  connection,   \* mongo.connection: "none", "open", "closed"
  files,        \* the files import_data has opened so far, by kind
  reader,       \* rows the DictReader has not yet yielded
  data,         \* the list `data`
  count_list,
  error_list,
  collections,  \* documents of product_data, customer_data, rental_data
  calls,        \* the insert_many calls issued, in order
  exception,    \* the exception that left import_data, or "None"
  tuple1,       \* the returned tuples
  tuple2,
  sap_result    \* result of the last show_available_products call

vars == <<pc, kind, connection, files, reader, data, count_list, error_list,
          collections, calls, exception, tuple1, tuple2, sap_result>>

Init ==
  /\ pc = "start"
  /\ kind = 1
  /\ connection = "none"
  /\ files = [k \in Kinds |-> Unopened]
  /\ reader = <<>>
  /\ data = <<>>
  /\ count_list = <<>>
  /\ error_list = <<>>
  /\ collections = [k \in Kinds |-> <<>>]
  /\ calls = <<>>
  /\ exception = "None"
  /\ tuple1 = <<>>
  /\ tuple2 = <<>>
  /\ sap_result = NotCalled

\* An exception leaves the with block: __exit__ runs and the exception
\* propagates to the caller.
Propagate(exc) ==
  /\ connection' = MongoExit(connection)
  /\ exception' = exc
  /\ pc' = "raised"

\* with mongo: (__enter__)
EnterWith ==
  /\ pc = "start"
  /\ connection' = MongoEnter
  /\ pc' = "open"
  /\ UNCHANGED <<kind, files, reader, data, count_list, error_list, collections,
                 calls, exception, tuple1, tuple2, sap_result>>

\* with open(directory_name + '/' + file): reader = csv.DictReader(...); data = []
OpenFile ==
  /\ pc = "open"
  /\ \E f \in FileChoices(kind) :
       /\ files' = [files EXCEPT ![kind] = f]
       /\ IF f.exists
            THEN /\ reader' = DictReader(f)
                 /\ data' = <<>>
                 /\ pc' = "read"
                 /\ UNCHANGED <<connection, exception>>
            ELSE /\ Propagate("FileNotFoundError")
                 /\ UNCHANGED <<reader, data>>
  /\ UNCHANGED <<kind, count_list, error_list, collections, calls, tuple1, tuple2,
                 sap_result>>

\* One iteration of `for row in reader: data.append({...})`
ReadRow ==
  /\ pc = "read"
  /\ reader # <<>>
  /\ LET rec == MapRow(kind, Head(reader)) IN
       IF RaisesKeyError(rec)
         THEN /\ Propagate("KeyError")
              /\ UNCHANGED <<reader, data>>
         ELSE /\ data' = Append(data, rec)
              /\ reader' = Tail(reader)
              /\ UNCHANGED <<pc, connection, exception>>
  /\ UNCHANGED <<kind, files, count_list, error_list, collections, calls, tuple1,
                 tuple2, sap_result>>

\* The reader is exhausted: the loop and the file's with block end.
EndOfFile ==
  /\ pc = "read"
  /\ reader = <<>>
  /\ pc' = "insert"
  /\ UNCHANGED <<kind, connection, files, reader, data, count_list, error_list,
                 collections, calls, exception, tuple1, tuple2, sap_result>>

\* try: collection.insert_many(data); count_list.append(data.__len__())
\* except TypeError as e: error_list.append(e)
InsertMany ==
  /\ pc = "insert"
  /\ LET docs == InsertDocuments(data) IN
     \E res \in InsertOutcomes(docs) :
       /\ calls' = Append(calls, [kind |-> kind, documents |-> docs, result |-> res])
       /\ IF res = "ok"
            THEN /\ collections' = [collections EXCEPT ![kind] = @ \o docs]
                 /\ count_list' = Append(count_list, CountEntry(data))
                 /\ pc' = IF kind = 3 THEN "exit" ELSE "open"
                 /\ kind' = IF kind = 3 THEN kind ELSE kind + 1
                 /\ UNCHANGED <<error_list, connection, exception>>
            ELSE IF Caught(res)
            THEN /\ error_list' = Append(error_list, res)
                 /\ pc' = IF kind = 3 THEN "exit" ELSE "open"
                 /\ kind' = IF kind = 3 THEN kind ELSE kind + 1
                 /\ UNCHANGED <<count_list, collections, connection, exception>>
            ELSE /\ \E part \in PartialInserts(docs, res) :
                      collections' = [collections EXCEPT ![kind] = @ \o part]
                 /\ Propagate(res)
                 /\ UNCHANGED <<count_list, error_list, kind>>
  /\ UNCHANGED <<files, reader, data, tuple1, tuple2, sap_result>>

\* The with block ends normally (__exit__).
ExitWith ==
  /\ pc = "exit"
  /\ connection' = MongoExit(connection)
  /\ pc' = "return"
  /\ UNCHANGED <<kind, files, reader, data, count_list, error_list, collections,
                 calls, exception, tuple1, tuple2, sap_result>>

\* tuple1 = tuple(count_list); tuple2 = tuple(error_list); return tuple1, tuple2
Return ==
  /\ pc = "return"
  /\ tuple1' = count_list
  /\ tuple2' = error_list
  /\ pc' = "returned"
  /\ UNCHANGED <<kind, connection, files, reader, data, count_list, error_list,
                 collections, calls, exception, sap_result>>

\* show_available_products(), called while import_data is not running.
ShowAvailableProducts ==
  /\ pc \in {"start", "returned", "raised"}
  /\ sap_result' = NoneValue
  /\ UNCHANGED <<pc, kind, connection, files, reader, data, count_list, error_list,
                 collections, calls, exception, tuple1, tuple2>>

Next ==
  \/ EnterWith
  \/ OpenFile
  \/ ReadRow
  \/ EndOfFile
  \/ InsertMany
  \/ ExitWith
  \/ Return
  \/ ShowAvailableProducts

Spec == Init /\ [][Next]_vars

(***************************************************************************)
(* Properties.                                                             *)
(***************************************************************************)

\* The file of kind k was opened, exists and has exactly the expected header.
WellFormed(k) == files[k].opened /\ files[k].exists /\ files[k].header = Fields(k)

\* Number of data rows of the file of kind k.
NumRows(k) == Len(files[k].rows)

\* The cell of data row j of the file of kind k under column c.
CsvCell(k, j, c) == files[k].rows[j][IndexOf(files[k].header, c)]

\* The calls that returned, the calls that raised.
OkCalls(cs) == SelectSeq(cs, LAMBDA c : c.result = "ok")

FailedCalls(cs) == SelectSeq(cs, LAMBDA c : c.result # "ok")

\* quantity_available as a number.
Quantity(str) == CASE str = "3" -> 3 [] str = "0" -> 0 [] OTHER -> 0

\* C1: for three well-formed files with N, M and K data rows (N, M, K >= 0)
\* and a store that accepts every insert, import_data returns
\* counts = (N, M, K) and errors = ().
C1_CountsMatchRows ==
  ( /\ pc = "returned"
    /\ \A k \in Kinds : WellFormed(k)
    /\ \A i \in DOMAIN calls : calls[i].result \notin StoreErrors )
  => /\ tuple1 = <<NumRows(1), NumRows(2), NumRows(3)>>
     /\ tuple2 = <<>>

\* C2: a file with a header row and zero data rows yields a count of 0 for
\* its kind and no error for that kind.
C2_EmptyFileCountsZero ==
  \A i \in DOMAIN calls :
    (files[i].exists /\ files[i].rows = <<>>) =>
      /\ calls[i].result = "ok"
      /\ count_list[Len(OkCalls(SubSeq(calls, 1, i)))] = 0

C4_ConnectionReleased ==
  (pc \in {"return", "returned", "raised"} /\ connection # "none")
    => connection = "closed"

C4_Witness ==
  /\ pc = "raised"
  /\ exception = "KeyError"
  /\ kind = 2
  /\ connection = "closed"

\* C5: the first returned tuple holds the counts of products, customers and
\* rentals added, in that order, and the second tuple holds the errors in the
\* same order: the entry at a position of either tuple belongs to the kind of
\* that position.
C5_PositionsAreKinds ==
  pc = "returned" =>
    /\ Len(tuple1) = 3
    /\ \A k \in Kinds : tuple1[k] = Len(collections[k])
    /\ \A k \in DOMAIN tuple2 : calls[k].result = tuple2[k]

\* C6: only failures of the insert call are recovered.  A row that lacks an
\* expected field or a file that cannot be opened ends the run: nothing of
\* that kind is inserted, no later kind is read or inserted and no tuples are
\* returned.
C6_OtherFailuresAbort ==
  /\ \A i \in DOMAIN error_list : error_list[i] \in {"TypeError"} \cup StoreErrors
  /\ \A k \in Kinds :
       ( files[k].opened /\
         ( \/ ~ files[k].exists
           \/ (files[k].rows # <<>> /\ ~ (FieldSet(k) \subseteq Range(files[k].header))) ) )
       => /\ pc \in {"raised", "read"}
          /\ kind = k
          /\ collections[k] = <<>>
          /\ Len(calls) = k - 1
          /\ \A j \in Kinds : j > k => ~ files[j].opened /\ collections[j] = <<>>
          /\ tuple1 = <<>> /\ tuple2 = <<>>
  /\ exception \in {"KeyError", "FileNotFoundError"} => pc = "raised"

C6_Witness ==
  /\ pc = "raised"
  /\ exception = "KeyError"
  /\ kind = 2
  /\ collections[1] # <<>>
  /\ files[2].rows # <<>>

C8_AvailableProducts ==
  sap_result.type # "not called" =>
    /\ sap_result.type = "list"
    /\ sap_result.items =
         SelectSeq(collections[1], LAMBDA p : Quantity(p.quantity_available) > 0)

\* C9: every record submitted to the store has exactly the declared fields
\* of its kind, each equal to the cell of its CSV row under that column, and
\* no other column of the row.
C9_RecordsAreRows ==
  \A i \in DOMAIN calls :
    LET k == calls[i].kind
        docs == calls[i].documents
    IN \A j \in DOMAIN docs :
         /\ DOMAIN docs[j] = FieldSet(k)
         /\ \A c \in FieldSet(k) : docs[j][c] = CsvCell(k, j, c)

C9_Witness ==
  /\ Len(calls) >= 1
  /\ calls[1].result = "ok"
  /\ Len(calls[1].documents) = 2
  /\ ExtraColumn \in Range(files[1].header)
  /\ calls[1].documents[1] # calls[1].documents[2]

\* C10: the kinds are processed in the order product, customer, rental with
\* at most one insert call per kind; a kind's insert call is issued after all
\* rows of its file were read and mapped and carries one record per row in
\* file order; the next file is opened only after the previous insert call
\* has completed.
C10_OrderedSingleInserts ==
  /\ Len(calls) <= 3
  /\ \A i \in DOMAIN calls :
       /\ calls[i].kind = i
       /\ Len(calls[i].documents) = NumRows(i)
       /\ \A j \in DOMAIN calls[i].documents :
            calls[i].documents[j][Fields(i)[1]] = CsvCell(i, j, Fields(i)[1])
  /\ \A k \in Kinds :
       files[k].opened =>
         /\ \A j \in 1..(k - 1) : files[j].opened
         /\ Len(calls) >= k - 1
         /\ \A j \in 1..(k - 1) : calls[j].result = "ok" \/ Caught(calls[j].result)
  /\ pc \in {"open", "read"} => Len(calls) = kind - 1
  /\ pc = "insert" =>
       /\ reader = <<>>
       /\ Len(data) = NumRows(kind)
       /\ Len(calls) = kind - 1

C10_Witness ==
  /\ Len(calls) = 3
  /\ calls[1].result = "ok"
  /\ Len(calls[2].documents) = 2
  /\ calls[3].result = "ok"
  /\ calls[2].documents[1] # calls[2].documents[2]

====
